---- MODULE Spec2Model ----
(***************************************************************************)
(* Model of scrapy_fake_useragent/providers.py: the four user-agent        *)
(* providers (FixedUserAgentProvider, FakeUserAgentProvider, FakerProvider,*)
(* RandomUserAgentProvider), their constructors and get_random_ua().       *)
(*                                                                         *)
(* Python values are tagged tuples: <<"None">>, <<"str", s>>, <<"int", n>>,*)
(* <<"dict", items>> (items: the insertion-ordered sequence of <<key,      *)
(* value>> pairs).  <<"absent">> marks a key that is missing from the      *)
(* settings mapping.  Filter values are sequences of one-character strings *)
(* so that str.upper() is computed, not assumed.                           *)
(***************************************************************************)
EXTENDS Integers, Sequences, FiniteSets, TLC

VARIABLES cls, settings, self, pc, op, outcome, emitted, drawn, backend_calls

vars == <<cls, settings, self, pc, op, outcome, emitted, drawn, backend_calls>>

-----------------------------------------------------------------------------
(* Bounds of the model                                                     *)

\* longest filter mapping handed to RandomUserAgentProvider
MaxFilters == 2
\* how far the number of catalogue entries matching a filter may exceed the cap
MaxOverCap == 1

-----------------------------------------------------------------------------
(* Python values                                                           *)

Absent == <<"absent">>
PyNone == <<"None">>
PyStr(s) == <<"str", s>>
PyInt(n) == <<"int", n>>
PyDict(items) == <<"dict", items>>

Tag(v) == v[1]

IsStr(v) == Tag(v) = "str"

\* truth value of a Python object, as `or` and `if` test it
Truthy(v) ==
    CASE Tag(v) = "None" -> FALSE
      [] Tag(v) = "str" -> v[2] # ""
      [] Tag(v) = "int" -> v[2] # 0
      [] Tag(v) = "dict" -> Len(v[2]) > 0
      [] OTHER -> TRUE

\* settings.get(key, default)
SettingsGet(s, key, default) == IF Tag(s[key]) = "absent" THEN default ELSE s[key]

SettingsKeys ==
    {"USER_AGENT", "FAKE_USERAGENT_RANDOM_UA_TYPE", "FAKEUSERAGENT_FALLBACK",
     "FAKER_RANDOM_UA_TYPE", "RANDOMUSERAGENT_RANDOM_UA_TYPE"}

EmptySettings == [k \in SettingsKeys |-> Absent]

With(s, key, v) == [s EXCEPT ![key] = v]

\* outcomes of an operation
Return(v) == <<"return", v>>
Raise(e) == <<"raise", e>>
NoOutcome == <<"none">>

Returned(o) == o[1] = "return"
Raised(o) == o[1] = "raise"

\* a log record
Log(level, args) == [level |-> level, args |-> args]

\* the object before any constructor has completed
NoInstance == [settings |-> PyNone, _ua_type |-> PyNone, _ua |-> PyNone]

\* BaseProvider.__init__
BaseProvider_init(s) == [settings |-> s, _ua_type |-> PyNone, _ua |-> PyNone]

-----------------------------------------------------------------------------
(* FixedUserAgentProvider                                                  *)

FixedUserAgents == {PyStr("MyBot/1.0"), PyStr("Mozilla/5.0")}

FixedSettings ==
    {With(EmptySettings, "USER_AGENT", v) :
        v \in {Absent, PyNone, PyStr("")} \cup FixedUserAgents}

\* mutant: self._ua = fixed_ua, without the `or ''`
FixedUserAgentProvider_init_NoOr(s) ==
    LET base == BaseProvider_init(s)
        fixed_ua == SettingsGet(s, "USER_AGENT", PyStr(""))
    IN  [outcome |-> Return(PyNone), emitted |-> <<>>,
         self |-> [base EXCEPT !._ua = fixed_ua]]

FixedUserAgentProvider_init(s) ==
    LET base == BaseProvider_init(s)
        fixed_ua == SettingsGet(s, "USER_AGENT", PyStr(""))
    IN  [outcome |-> Return(PyNone), emitted |-> <<>>,
         self |-> [base EXCEPT !._ua = IF Truthy(fixed_ua) THEN fixed_ua ELSE PyStr("")]]

FixedUserAgentProvider_get_random_ua(slf) ==
    [outcome |-> Return(slf._ua), emitted |-> <<>>, self |-> slf,
     calls |-> <<>>]

-----------------------------------------------------------------------------
(* FakeUserAgentProvider, backed by fake_useragent.UserAgent               *)

FakeUserAgentProvider_DEFAULT_UA_TYPE == PyStr("random")

\* categories the fake_useragent data set answers
FakeUserAgentCategories == {"random", "chrome", "firefox"}

\* user agents the data set may hand out
FakeUserAgentData == {PyStr("Mozilla/5.0 (fua-1)"), PyStr("Mozilla/5.0 (fua-2)")}

FakeFallbacks == {Absent, PyStr("Fallback/1.0")}

FakeUaTypes == {Absent, PyStr("random"), PyStr("chrome"), PyStr("nokia")}

FakeSettings ==
    {With(With(EmptySettings, "FAKE_USERAGENT_RANDOM_UA_TYPE", t),
          "FAKEUSERAGENT_FALLBACK", f) : t \in FakeUaTypes, f \in FakeFallbacks}

\* fake_useragent.UserAgent(fallback=fallback)
fake_useragent_UserAgent(fallback) ==
    [backend |-> "fake_useragent.UserAgent", fallback |-> fallback]

\* getattr(self._ua, name) on the fake_useragent backend: a known category
\* yields the entry the backend chose; an unknown one yields the configured
\* fallback, and fails when there is none
fake_useragent_getattr(ua, name, choice) ==
    IF name[2] \in FakeUserAgentCategories THEN Return(choice)
    ELSE IF Tag(ua.fallback) = "None" THEN Raise("FakeUserAgentError")
    ELSE Return(ua.fallback)

FakeUserAgentProvider_init(s) ==
    LET base == BaseProvider_init(s)
        ua_type == SettingsGet(s, "FAKE_USERAGENT_RANDOM_UA_TYPE",
                               FakeUserAgentProvider_DEFAULT_UA_TYPE)
        fallback == SettingsGet(s, "FAKEUSERAGENT_FALLBACK", PyNone)
    IN  [outcome |-> Return(PyNone), emitted |-> <<>>,
         self |-> [base EXCEPT !._ua_type = ua_type,
                               !._ua = fake_useragent_UserAgent(fallback)]]

\* mutant: the lookup failure is caught and the default category is served
FakeUserAgentProvider_get_random_ua_Catching(slf, choice) ==
    LET r == fake_useragent_getattr(slf._ua, slf._ua_type, choice)
    IN  [outcome |-> IF Raised(r) THEN Return(choice) ELSE r,
         emitted |-> <<>>, self |-> slf,
         calls |-> <<<<"getattr", slf._ua_type>>>>]

FakeUserAgentProvider_get_random_ua(slf, choice) ==
    [outcome |-> fake_useragent_getattr(slf._ua, slf._ua_type, choice),
     emitted |-> <<>>, self |-> slf,
     calls |-> <<<<"getattr", slf._ua_type>>>>]

-----------------------------------------------------------------------------
(* FakerProvider, backed by faker.Faker                                    *)

FakerProvider_DEFAULT_UA_TYPE == PyStr("user_agent")

\* zero-argument generation methods of the Faker object that yield a string
FakerStringMethods == {"user_agent", "chrome", "firefox"}
\* a zero-argument method of the Faker object that yields an integer
FakerIntMethods == {"pyint"}
\* attributes of the Faker object that are not callable
FakerNonCallables == {"random"}
\* names the Faker object does not have
FakerMissingNames == {"no_such_ua", ""}

FakerStrings == {PyStr("Mozilla/5.0 (faker-1)"), PyStr("Mozilla/5.0 (faker-2)")}

\* what each generation method would yield if invoked during one call
FakerDraws == [FakerStringMethods -> FakerStrings]

FakerUaTypes ==
    {Absent} \cup {PyStr(n) : n \in FakerStringMethods \cup FakerIntMethods
                                    \cup FakerNonCallables \cup FakerMissingNames}

FakerSettings == {With(EmptySettings, "FAKER_RANDOM_UA_TYPE", t) : t \in FakerUaTypes}

faker_Faker == [backend |-> "faker.Faker"]

\* getattr(self._ua, name)(): attribute resolution, then the call
Faker_call(name, draw) ==
    CASE name[2] \in FakerStringMethods -> Return(draw[name[2]])
      [] name[2] \in FakerIntMethods -> Return(PyInt(7))
      [] name[2] \in FakerNonCallables -> Raise("TypeError")
      [] OTHER -> Raise("AttributeError")

FakerProvider_init(s) ==
    LET base == BaseProvider_init(s)
    IN  [outcome |-> Return(PyNone), emitted |-> <<>>,
         self |-> [base EXCEPT !._ua = faker_Faker,
                               !._ua_type = SettingsGet(s, "FAKER_RANDOM_UA_TYPE",
                                                        FakerProvider_DEFAULT_UA_TYPE)]]

\* mutant: the fallback retries the configured name's neighbour 'chrome'
\* instead of DEFAULT_UA_TYPE
FakerProvider_get_random_ua_WrongDefault(slf, draw) ==
    LET first == Faker_call(slf._ua_type, draw)
    IN  IF first = Raise("AttributeError")
        THEN [outcome |-> Faker_call(PyStr("chrome"), draw),
              emitted |-> <<Log("debug", <<slf._ua_type, FakerProvider_DEFAULT_UA_TYPE>>)>>,
              self |-> slf,
              calls |-> <<slf._ua_type, PyStr("chrome")>>]
        ELSE [outcome |-> first, emitted |-> <<>>, self |-> slf,
              calls |-> <<slf._ua_type>>]

FakerProvider_get_random_ua(slf, draw) ==
    LET first == Faker_call(slf._ua_type, draw)
    IN  IF first = Raise("AttributeError")
        THEN [outcome |-> Faker_call(FakerProvider_DEFAULT_UA_TYPE, draw),
              emitted |-> <<Log("debug", <<slf._ua_type, FakerProvider_DEFAULT_UA_TYPE>>)>>,
              self |-> slf,
              calls |-> <<slf._ua_type, FakerProvider_DEFAULT_UA_TYPE>>]
        ELSE [outcome |-> first, emitted |-> <<>>, self |-> slf,
              calls |-> <<slf._ua_type>>]

-----------------------------------------------------------------------------
(* RandomUserAgentProvider, backed by random_user_agent.UserAgent          *)

RandomUserAgentProvider_DEFAULT_UA_TYPE == PyStr("")

\* limit=100 handed to the backend constructor
LIMIT == 100
\* the pool size below which get_random_ua warns
WARN_BELOW == 100

LowerLetters ==
    <<"a","b","c","d","e","f","g","h","i","j","k","l","m",
      "n","o","p","q","r","s","t","u","v","w","x","y","z">>
UpperLetters ==
    <<"A","B","C","D","E","F","G","H","I","J","K","L","M",
      "N","O","P","Q","R","S","T","U","V","W","X","Y","Z">>

UpperChar(c) ==
    IF \E i \in 1..26 : LowerLetters[i] = c
    THEN UpperLetters[CHOOSE i \in 1..26 : LowerLetters[i] = c]
    ELSE c

\* mutant: the configured value is looked up as written
UpperNoop(w) == w

\* str.upper()
Upper(w) == [i \in 1..Len(w) |-> UpperChar(w[i])]

\* members of the random_user_agent.params enumerations: <<NAME, value>>
HardwareType ==
    {<<<<"C", "O", "M", "P", "U", "T", "E", "R">>, "computer">>,
     <<<<"M", "O", "B", "I", "L", "E">>, "mobile">>}
SoftwareType ==
    {<<<<"W", "E", "B", "_", "B", "R", "O", "W", "S", "E", "R">>, "browser -> web-browser">>}
SoftwareName ==
    {<<<<"C", "H", "R", "O", "M", "E">>, "chrome">>,
     <<<<"A", "N", "D", "R", "O", "I", "D">>, "android">>}
SoftwareEngine ==
    {<<<<"B", "L", "I", "N", "K">>, "blink">>}
OperatingSystem ==
    {<<<<"W", "I", "N", "D", "O", "W", "S">>, "windows">>,
     <<<<"A", "N", "D", "R", "O", "I", "D">>, "android">>}
Popularity ==
    {<<<<"C", "O", "M", "M", "O", "N">>, "common">>}

FilterCategories ==
    {"hardware_types", "software_types", "software_names",
     "software_engines", "operating_systems", "popularity"}

CLASS_MAP ==
    [c \in FilterCategories |->
        CASE c = "hardware_types" -> HardwareType
          [] c = "software_types" -> SoftwareType
          [] c = "software_names" -> SoftwareName
          [] c = "software_engines" -> SoftwareEngine
          [] c = "operating_systems" -> OperatingSystem
          [] c = "popularity" -> Popularity]

\* getattr(enum_class, name, None)
EnumGetattr(enum, name) ==
    IF \E m \in enum : m[1] = name
    THEN LET m == CHOOSE m \in enum : m[1] = name IN <<"member", m[1], m[2]>>
    ELSE PyNone

\* filter values a configuration may carry
FilterValues ==
    {<<"c", "o", "m", "p", "u", "t", "e", "r">>,
     <<"C", "O", "M", "P", "U", "T", "E", "R">>,
     <<"A", "n", "d", "r", "o", "i", "d">>,
     <<"t", "o", "a", "s", "t", "e", "r">>}

\* insertion-ordered mappings category -> value with distinct keys
FilterItems ==
    UNION {{f \in [1..n -> FilterCategories \X FilterValues] :
                \A i, j \in 1..n : i # j => f[i][1] # f[j][1]} : n \in 0..MaxFilters}

RandomUaTypes == {Absent} \cup {PyDict(f) : f \in FilterItems}

RandomSettings ==
    {With(EmptySettings, "RANDOMUSERAGENT_RANDOM_UA_TYPE", t) : t \in RandomUaTypes}

\* how many catalogue entries match the filter parameters
MatchCounts == {0, 1, LIMIT - 1} \cup (LIMIT..(LIMIT + MaxOverCap))

Min(a, b) == IF a < b THEN a ELSE b

NoParams == [c \in {} |-> ""]

\* UserAgent(**params, limit=limit): the pool is the first `limit` matches
random_user_agent_UserAgent(params, limit, matched) ==
    [backend |-> "random_user_agent.UserAgent", params |-> params, limit |-> limit,
     user_agents |-> [i \in 1..Min(matched, limit) |-> PyStr("ua" \o ToString(i))]]

\* mutant: an unresolvable pair is skipped instead of aborting construction
RECURSIVE ResolveFiltersSkipping(_, _, _)
ResolveFiltersSkipping(items, i, params) ==
    IF i > Len(items) THEN [outcome |-> Return(PyNone), emitted |-> <<>>, params |-> params]
    ELSE LET filter_cat == items[i][1]
             filter_value == items[i][2]
             match == EnumGetattr(CLASS_MAP[filter_cat], Upper(filter_value))
         IN  IF Truthy(match)
             THEN ResolveFiltersSkipping(items, i + 1,
                      [c \in DOMAIN params \cup {filter_cat} |->
                          IF c = filter_cat THEN match[3] ELSE params[c]])
             ELSE ResolveFiltersSkipping(items, i + 1, params)

\* the loop over self._ua_type.items(), from pair i on
RECURSIVE ResolveFilters(_, _, _)
ResolveFilters(items, i, params) ==
    IF i > Len(items) THEN [outcome |-> Return(PyNone), emitted |-> <<>>, params |-> params]
    ELSE LET filter_cat == items[i][1]
             filter_value == items[i][2]
             match == EnumGetattr(CLASS_MAP[filter_cat], Upper(filter_value))
         IN  IF Truthy(match)
             THEN ResolveFilters(items, i + 1,
                      [c \in DOMAIN params \cup {filter_cat} |->
                          IF c = filter_cat THEN match[3] ELSE params[c]])
             ELSE [outcome |-> Raise("Exception"),
                   emitted |-> <<Log("error", <<filter_value>>)>>,
                   params |-> params]

RandomUserAgentProvider_init(s, matched) ==
    LET base == BaseProvider_init(s)
        ua_type == SettingsGet(s, "RANDOMUSERAGENT_RANDOM_UA_TYPE",
                               RandomUserAgentProvider_DEFAULT_UA_TYPE)
        typed == [base EXCEPT !._ua_type = ua_type]
    IN  IF Tag(ua_type) # "dict"
        THEN \* a str has no .items()
             [outcome |-> Raise("AttributeError"), emitted |-> <<>>, self |-> typed]
        ELSE LET r == ResolveFilters(ua_type[2], 1, NoParams)
             IN  IF Raised(r.outcome)
                 THEN [outcome |-> r.outcome, emitted |-> r.emitted, self |-> typed]
                 ELSE [outcome |-> Return(PyNone), emitted |-> <<>>,
                       self |-> [typed EXCEPT
                                   !._ua = random_user_agent_UserAgent(r.params, LIMIT, matched)]]

\* self._ua.get_random_user_agent(): random.choice over the pool
random_user_agent_get_random_user_agent(ua, pick) ==
    IF Len(ua.user_agents) = 0 THEN Raise("IndexError") ELSE Return(ua.user_agents[pick])

\* getattr(self._ua, name)() on the random_user_agent backend
random_user_agent_call(ua, name, pick) ==
    IF name[2] = "get_random_user_agent"
    THEN random_user_agent_get_random_user_agent(ua, pick)
    ELSE Raise("AttributeError")

\* keys of the filter mapping, as " | ".join(self._ua_type) walks them
JoinedKeys(ua_type) == [i \in 1..Len(ua_type[2]) |-> ua_type[2][i][1]]

\* mutant: the warning test is `nb_ua <= 100`
ShouldWarnInclusive(nb_ua) == nb_ua <= WARN_BELOW

\* if nb_ua < 100
ShouldWarn(nb_ua) == nb_ua < WARN_BELOW

\* mutant: the picked entry is removed from the pool
RandomUserAgentProvider_get_random_ua_Popping(slf, pick) ==
    LET ua == random_user_agent_get_random_user_agent(slf._ua, pick)
        rest == [i \in 1..(Len(slf._ua.user_agents) - 1) |->
                    IF i < pick THEN slf._ua.user_agents[i] ELSE slf._ua.user_agents[i + 1]]
    IN  IF Raised(ua)
        THEN [outcome |-> Raise("AttributeError"), emitted |-> <<>>, self |-> slf,
              calls |-> <<PyStr("get_random_user_agent")>>]
        ELSE [outcome |-> ua, emitted |-> <<>>,
              self |-> [slf EXCEPT !._ua.user_agents = rest],
              calls |-> <<PyStr("get_random_user_agent")>>]

RandomUserAgentProvider_get_random_ua(slf, pick) ==
    LET ua == random_user_agent_get_random_user_agent(slf._ua, pick)
        nb_ua == Len(slf._ua.user_agents)
    IN  IF ua = Raise("IndexError")
        THEN [outcome |-> random_user_agent_call(slf._ua,
                              RandomUserAgentProvider_DEFAULT_UA_TYPE, pick),
              emitted |-> <<Log("debug", <<JoinedKeys(slf._ua_type),
                                           RandomUserAgentProvider_DEFAULT_UA_TYPE>>)>>,
              self |-> slf,
              calls |-> <<PyStr("get_random_user_agent"),
                          RandomUserAgentProvider_DEFAULT_UA_TYPE>>]
        ELSE [outcome |-> ua,
              emitted |-> IF ShouldWarn(nb_ua)
                          THEN <<Log("warning", <<PyInt(nb_ua), JoinedKeys(slf._ua_type)>>)>>
                          ELSE <<>>,
              self |-> slf,
              calls |-> <<PyStr("get_random_user_agent")>>]

-----------------------------------------------------------------------------
(* The state machine: one provider class is instantiated from one settings *)
(* mapping, then get_random_ua() is called any number of times.            *)

Classes ==
    {"FixedUserAgentProvider", "FakeUserAgentProvider", "FakerProvider",
     "RandomUserAgentProvider"}

NoDraw == <<"none">>

Init ==
    /\ cls \in Classes
    /\ settings \in CASE cls = "FixedUserAgentProvider" -> FixedSettings
                      [] cls = "FakeUserAgentProvider" -> FakeSettings
                      [] cls = "FakerProvider" -> FakerSettings
                      [] cls = "RandomUserAgentProvider" -> RandomSettings
    /\ self = NoInstance
    /\ pc = "new"
    /\ op = "none"
    /\ outcome = NoOutcome
    /\ emitted = <<>>
    /\ drawn = NoDraw
    /\ backend_calls = <<>>

\* the constructor returned or raised
Constructed(r) ==
    /\ self' = IF Raised(r.outcome) THEN NoInstance ELSE r.self
    /\ pc' = IF Raised(r.outcome) THEN "failed" ELSE "ready"
    /\ op' = "init"
    /\ outcome' = r.outcome
    /\ emitted' = r.emitted
    /\ drawn' = NoDraw
    /\ backend_calls' = <<>>
    /\ UNCHANGED <<cls, settings>>

\* get_random_ua returned or raised
Called(r, d) ==
    /\ self' = r.self
    /\ op' = "get"
    /\ outcome' = r.outcome
    /\ emitted' = r.emitted
    /\ drawn' = d
    /\ backend_calls' = r.calls
    /\ UNCHANGED <<cls, settings, pc>>

FixedInit ==
    /\ pc = "new" /\ cls = "FixedUserAgentProvider"
    /\ Constructed(FixedUserAgentProvider_init(settings))

FakeInit ==
    /\ pc = "new" /\ cls = "FakeUserAgentProvider"
    /\ Constructed(FakeUserAgentProvider_init(settings))

FakerInit ==
    /\ pc = "new" /\ cls = "FakerProvider"
    /\ Constructed(FakerProvider_init(settings))

RandomInit ==
    /\ pc = "new" /\ cls = "RandomUserAgentProvider"
    /\ \E matched \in MatchCounts :
          Constructed(RandomUserAgentProvider_init(settings, matched))

FixedGet ==
    /\ pc = "ready" /\ cls = "FixedUserAgentProvider"
    /\ Called(FixedUserAgentProvider_get_random_ua(self), NoDraw)

FakeGet ==
    /\ pc = "ready" /\ cls = "FakeUserAgentProvider"
    /\ \E choice \in FakeUserAgentData :
          Called(FakeUserAgentProvider_get_random_ua(self, choice), choice)

FakerGet ==
    /\ pc = "ready" /\ cls = "FakerProvider"
    /\ \E draw \in FakerDraws :
          Called(FakerProvider_get_random_ua(self, draw), draw)

\* positions random.choice may pick in the pool (0: there is nothing to pick)
Picks(ua) == IF Len(ua.user_agents) = 0 THEN {0} ELSE 1..Len(ua.user_agents)

RandomGet ==
    /\ pc = "ready" /\ cls = "RandomUserAgentProvider"
    /\ \E pick \in Picks(self._ua) :
          Called(RandomUserAgentProvider_get_random_ua(self, pick),
                 IF pick = 0 THEN PyNone ELSE self._ua.user_agents[pick])

Next ==
    \/ FixedInit
    \/ FakeInit
    \/ FakerInit
    \/ RandomInit
    \/ FixedGet
    \/ FakeGet
    \/ FakerGet
    \/ RandomGet

Spec == Init /\ [][Next]_vars

-----------------------------------------------------------------------------
(* Vocabulary of the properties                                            *)

RandomOption == settings["RANDOMUSERAGENT_RANDOM_UA_TYPE"]

\* two words that differ at most in the case of their letters
SameIgnoringCase(a, b) ==
    /\ Len(a) = Len(b)
    /\ \A i \in 1..Len(a) :
          \/ a[i] = b[i]
          \/ \E k \in 1..26 : {a[i], b[i]} = {LowerLetters[k], UpperLetters[k]}

\* the legal constants of a category that a configured value names
NamedBy(cat, value) == {m \in CLASS_MAP[cat] : SameIgnoringCase(m[1], value)}

Resolvable(pair) == NamedBy(pair[1], pair[2]) # {}

AllResolvable(items) == \A i \in 1..Len(items) : Resolvable(items[i])

FirstUnresolvable(items) ==
    items[CHOOSE i \in 1..Len(items) :
              /\ ~Resolvable(items[i])
              /\ \A j \in 1..(i - 1) : Resolvable(items[j])]

HasLevel(records, level) == \E i \in 1..Len(records) : records[i].level = level

-----------------------------------------------------------------------------
(* Properties                                                              *)

\* C1: when the candidate pool of a RandomUserAgentProvider is empty,
\* get_random_ua() takes the fallback path (debug record) and returns a value;
\* no error reaches the caller.
C1_EmptyPoolFallbackReturns ==
    (cls = "RandomUserAgentProvider" /\ op = "get" /\ Len(self._ua.user_agents) = 0)
        => /\ Returned(outcome)
           /\ HasLevel(emitted, "debug")

\* C2: a RandomUserAgentProvider built from settings without the
\* RANDOMUSERAGENT_RANDOM_UA_TYPE option uses the empty mapping: construction
\* succeeds, nothing is resolved and the backend gets no filter parameters.
C2_AbsentOptionIsEmptyMapping ==
    (cls = "RandomUserAgentProvider" /\ op # "none" /\ Tag(RandomOption) = "absent")
        => /\ pc = "ready"
           /\ self._ua.params = NoParams

\* C3: whatever method name a FakerProvider is configured with,
\* get_random_ua() returns a string and never fails outward.
C3_FakerAlwaysReturnsString ==
    (cls = "FakerProvider" /\ op = "get")
        => /\ Returned(outcome)
           /\ IsStr(outcome[2])

\* C4: fallback equivalence of FakerProvider: with a method name the backend
\* does not have, the call returns what 'user_agent' yields for that call
\* (after one debug record); with a supported name it returns what that
\* method yields and invokes nothing else.
C4_FallbackEquivalence ==
    (cls = "FakerProvider" /\ op = "get")
        => LET name == self._ua_type[2]
           IN  /\ name \in FakerMissingNames
                    => /\ outcome = Return(drawn["user_agent"])
                       /\ backend_calls = <<PyStr(name), PyStr("user_agent")>>
                       /\ HasLevel(emitted, "debug")
               /\ name \in FakerStringMethods
                    => /\ outcome = Return(drawn[name])
                       /\ backend_calls = <<PyStr(name)>>
                       /\ emitted = <<>>

C4_Witness ==
    /\ cls = "FakerProvider" /\ op = "get"
    /\ self._ua_type = PyStr("no_such_ua")
    /\ drawn["user_agent"] # drawn["chrome"]
    /\ outcome = Return(drawn["user_agent"])

\* C5: a filter mapping with a pair whose upper-cased value is no constant of
\* its category makes construction log one error and raise before the backend
\* is built, so no instance exists; a mapping whose pairs all resolve
\* constructs successfully.
C5_BadFilterAbortsConstruction ==
    (cls = "RandomUserAgentProvider" /\ op # "none" /\ Tag(RandomOption) = "dict")
        => LET items == RandomOption[2]
           IN  IF AllResolvable(items)
               THEN pc = "ready"
               ELSE /\ pc = "failed"
                    /\ outcome = Raise("Exception")
                    /\ emitted = <<Log("error", <<FirstUnresolvable(items)[2]>>)>>
                    /\ self = NoInstance

C5_Witness ==
    /\ cls = "RandomUserAgentProvider" /\ pc = "failed"
    /\ Tag(RandomOption) = "dict"
    /\ Len(RandomOption[2]) = 2
    /\ Resolvable(RandomOption[2][1])
    /\ ~Resolvable(RandomOption[2][2])
    /\ outcome = Raise("Exception")

\* C6: every get_random_ua() of a FixedUserAgentProvider returns the
\* configured USER_AGENT string, and "" (never None) when the option is
\* absent or unset.
C6_FixedReturnsConfigured ==
    (cls = "FixedUserAgentProvider" /\ op = "get")
        => outcome = Return(IF IsStr(settings["USER_AGENT"])
                            THEN settings["USER_AGENT"] ELSE PyStr(""))

C6_Witness ==
    /\ cls = "FixedUserAgentProvider" /\ op = "get"
    /\ settings["USER_AGENT"] = PyNone
    /\ outcome = Return(PyStr(""))

FakeConfiguredType ==
    IF Tag(settings["FAKE_USERAGENT_RANDOM_UA_TYPE"]) = "absent"
    THEN "random" ELSE settings["FAKE_USERAGENT_RANDOM_UA_TYPE"][2]

\* C7 as stated: get_random_ua() of a FakeUserAgentProvider returns the
\* backend attribute named by the configured type ('random' by default), and
\* an invalid type name always reaches the caller as a failure, never as a
\* default value.
C7_InvalidTypeAlwaysFails ==
    (cls = "FakeUserAgentProvider" /\ op = "get")
        => IF FakeConfiguredType \in FakeUserAgentCategories
           THEN outcome = Return(drawn)
           ELSE Raised(outcome)

\* C7 amended: get_random_ua() hands on the outcome of the backend lookup
\* untouched: the chosen entry for a valid type ('random' by default); for an
\* invalid type the backend's failure, uncaught, when no fallback is
\* configured, and the configured fallback string when one is.
C7_LookupOutcomePassedThrough ==
    (cls = "FakeUserAgentProvider" /\ op = "get")
        => /\ emitted = <<>>
           /\ IF FakeConfiguredType \in FakeUserAgentCategories
              THEN outcome = Return(drawn)
              ELSE IF Tag(settings["FAKEUSERAGENT_FALLBACK"]) = "absent"
              THEN outcome = Raise("FakeUserAgentError")
              ELSE outcome = Return(settings["FAKEUSERAGENT_FALLBACK"])

C7_Witness ==
    /\ cls = "FakeUserAgentProvider" /\ op = "get"
    /\ FakeConfiguredType = "nokia"
    /\ Tag(settings["FAKEUSERAGENT_FALLBACK"]) = "absent"
    /\ Raised(outcome)

\* C8: on a get_random_ua() of a RandomUserAgentProvider with a non-empty
\* pool, a warning is logged exactly when the pool holds fewer than 100
\* entries, and the value returned is the entry the backend picked either way.
C8_WarningIsAdvisory ==
    (cls = "RandomUserAgentProvider" /\ op = "get" /\ Len(self._ua.user_agents) > 0)
        => /\ outcome = Return(drawn)
           /\ HasLevel(emitted, "warning") <=> Len(self._ua.user_agents) < 100
           /\ \A i \in 1..Len(emitted) : emitted[i].level = "warning"

C8_Witness ==
    /\ cls = "RandomUserAgentProvider" /\ op = "get"
    /\ Len(self._ua.user_agents) = 100
    /\ outcome = Return(drawn)
    /\ emitted = <<>>

\* C9: a get_random_ua() step of any provider leaves the instance as
\* construction made it (settings, UA type, backend handle, candidate pool),
\* the pool never exceeds 100 entries, and the provider stays ready.
C9_GetLeavesProviderUnchanged ==
    [][op' = "get" =>
          /\ self' = self
          /\ settings' = settings
          /\ pc' = "ready"
          /\ cls = "RandomUserAgentProvider" => Len(self'._ua.user_agents) <= 100]_vars

C9_Witness ==
    /\ cls = "RandomUserAgentProvider" /\ op = "get"
    /\ Len(self._ua.user_agents) = 99
    /\ Returned(outcome)

\* the filter mappings that differ from `items` only in the case of values
CaseVariants(items) ==
    {[i \in 1..Len(items) |-> <<items[i][1], f[i]>>] :
        f \in {g \in [1..Len(items) -> FilterValues] :
                  \A i \in 1..Len(items) : SameIgnoringCase(g[i], items[i][2])}}

\* C10: when every configured pair resolves, the backend is built with
\* limit=100 and with exactly the configured categories as parameters, each
\* carrying the code of the constant its upper-cased value names; mappings
\* that differ only in letter case give the same parameters.
C10_FiltersResolvedCaseInsensitively ==
    (/\ cls = "RandomUserAgentProvider" /\ op # "none"
     /\ Tag(RandomOption) = "dict" /\ AllResolvable(RandomOption[2]))
        => LET items == RandomOption[2]
           IN  /\ pc = "ready"
               /\ self._ua.limit = 100
               /\ DOMAIN self._ua.params = {items[i][1] : i \in 1..Len(items)}
               /\ \A i \in 1..Len(items) :
                     \E m \in NamedBy(items[i][1], items[i][2]) :
                        self._ua.params[items[i][1]] = m[2]
               /\ \A other \in CaseVariants(items) :
                     ResolveFilters(other, 1, NoParams).params = self._ua.params

C10_Witness ==
    /\ cls = "RandomUserAgentProvider" /\ pc = "ready"
    /\ Tag(RandomOption) = "dict"
    /\ RandomOption[2] = <<<<"hardware_types", <<"c", "o", "m", "p", "u", "t", "e", "r">>>>,
                           <<"operating_systems", <<"A", "n", "d", "r", "o", "i", "d">>>>>>
    /\ self._ua.params["hardware_types"] = "computer"
    /\ self._ua.params["operating_systems"] = "android"

====
